---- MODULE Spec2Model ----
(***************************************************************************)
(* Model of the SOTA log parser of log2csv.py: the line scanner            *)
(* parse_input, the Activation header constructor and the QSO contact-line *)
(* resolver, with the string matching functions they rest on.              *)
(*                                                                         *)
(* A Python string is a sequence of one-character strings; None and the    *)
(* empty string are both the empty sequence where the code tests them by   *)
(* truth value.  A Python exception is a value: the constructors return a  *)
(* record whose exc field names the exception class ("" when none).        *)
(***************************************************************************)
EXTENDS Integers, Sequences, FiniteSets, TLC

\* ------------------------------------------------------------------------
\* characters and strings
\* ------------------------------------------------------------------------

Digits == <<"0", "1", "2", "3", "4", "5", "6", "7", "8", "9">>

LowerCase ==
  <<"a", "b", "c", "d", "e", "f", "g", "h", "i", "j", "k", "l", "m",
    "n", "o", "p", "q", "r", "s", "t", "u", "v", "w", "x", "y", "z">>

UpperCase ==
  <<"A", "B", "C", "D", "E", "F", "G", "H", "I", "J", "K", "L", "M",
    "N", "O", "P", "Q", "R", "S", "T", "U", "V", "W", "X", "Y", "Z">>

IsDigit(c) == \E i \in 1..10 : Digits[i] = c

IsLower(c) == \E i \in 1..26 : LowerCase[i] = c

IsUpper(c) == \E i \in 1..26 : UpperCase[i] = c

IsLetter(c) == IsLower(c) \/ IsUpper(c)

IsAlnum(c) == IsDigit(c) \/ IsLetter(c)

\* \w of the re module
IsWordChar(c) == IsAlnum(c) \/ c = "_"

\* str.isspace, \s and \S of the re module
isspace(c) == c = " " \/ c = "\t"

DigitVal(c) == (CHOOSE i \in 1..10 : Digits[i] = c) - 1

\* str.upper
upper(s) ==
  [i \in 1..Len(s) |->
     IF IsLower(s[i]) THEN UpperCase[CHOOSE k \in 1..26 : LowerCase[k] = s[i]]
     ELSE s[i]]

\* str.lower
lower(s) ==
  [i \in 1..Len(s) |->
     IF IsUpper(s[i]) THEN LowerCase[CHOOSE k \in 1..26 : UpperCase[k] = s[i]]
     ELSE s[i]]

AllDigits(s, a, b) == \A i \in a..b : IsDigit(s[i])

AllAlnum(s, a, b) == \A i \in a..b : IsAlnum(s[i])

\* int() of a string of digits
RECURSIVE int(_)
int(s) ==
  IF Len(s) = 0 THEN 0
  ELSE 10 * int(SubSeq(s, 1, Len(s) - 1)) + DigitVal(s[Len(s)])

RECURSIVE Pow10(_)
Pow10(k) == IF k = 0 THEN 1 ELSE 10 * Pow10(k - 1)

\* str.strip
RECURSIVE strip(_)
strip(s) ==
  IF Len(s) = 0 THEN s
  ELSE IF isspace(s[1]) THEN strip(Tail(s))
  ELSE IF isspace(s[Len(s)]) THEN strip(SubSeq(s, 1, Len(s) - 1))
  ELSE s

\* str.endswith for a one-character suffix
endswith(s, c) == Len(s) > 0 /\ s[Len(s)] = c

\* the value None, and the empty string
None == <<>>

\* ------------------------------------------------------------------------
\* string matching functions (fullmatch of the compiled patterns)
\* ------------------------------------------------------------------------

\* call_prefix at position p: the positions right after each possible match.
\* (?=.?[a-z]) looks at the next two characters, [0-9a-z]{1,2} takes one or
\* two, and (?:(?<=3d)a)? takes an "a" that directly follows "3d".
call_prefix(s, p) ==
  LET n == Len(s)
      look == (p <= n /\ IsLetter(s[p])) \/ (p + 1 <= n /\ IsLetter(s[p + 1]))
      base == {q \in {p + 1, p + 2} : q <= n + 1 /\ AllAlnum(s, p, q - 1)}
      after3d(q) == q >= 3 /\ q <= n /\ s[q - 2] = "3" /\ lower(<<s[q - 1]>>) = <<"d">>
                     /\ lower(<<s[q]>>) = <<"a">>
  IN IF look THEN base \cup {q + 1 : q \in {b \in base : after3d(b)}} ELSE {}

\* call_prefix [0-9] [a-z0-9]* (?:/[0-9a-z]+)? from position p to the end
call_base(s, p) ==
  LET n == Len(s)
  IN \E q \in call_prefix(s, p) :
        /\ q <= n
        /\ IsDigit(s[q])
        /\ \E r \in (q + 1)..(n + 1) :
              /\ AllAlnum(s, q + 1, r - 1)
              /\ \/ r = n + 1
                 \/ r < n /\ s[r] = "/" /\ AllAlnum(s, r + 1, n)

\* call.fullmatch(s), re.I
call(s) ==
  LET n == Len(s)
  IN \/ call_base(s, 1)
     \/ \E q \in call_prefix(s, 1) :
           \E k \in {q, q + 1} :
              /\ k <= n
              /\ s[k] = "/"
              /\ k = q \/ IsDigit(s[q])
              /\ call_base(s, k + 1)

\* sota_ref.fullmatch(s), re.I: [a-z0-9]{1,3}/[a-z]{2}-[0-9]{3}
sota_ref(s) ==
  LET n == Len(s)
  IN /\ n \in 8..10
     /\ AllAlnum(s, 1, n - 7)
     /\ s[n - 6] = "/"
     /\ IsLetter(s[n - 5]) /\ IsLetter(s[n - 4])
     /\ s[n - 3] = "-"
     /\ AllDigits(s, n - 2, n)

\* date_reg.fullmatch(s): the groups <<year, month, day>>, or None
date_reg(s) ==
  IF /\ Len(s) = 10
     /\ AllDigits(s, 1, 4)
     /\ s[5] \in {".", "-"}
     /\ AllDigits(s, 6, 7)
     /\ s[8] = s[5]
     /\ AllDigits(s, 9, 10)
  THEN <<SubSeq(s, 1, 4), SubSeq(s, 6, 7), SubSeq(s, 9, 10)>>
  ELSE None

\* the hour value of a match of time_reg without the hour group
NoHour == -1

\* time_reg.fullmatch(s): (int(hour) or None, int(minute)), or None.
\* hour is 0?[0-9] | 1[0-9] | 2[0-3]; with an hour the minute is [0-5][0-9],
\* without it [0-5]?[0-9].
time_reg(s) ==
  LET n == Len(s)
      minute2(a) == IsDigit(s[a]) /\ DigitVal(s[a]) <= 5 /\ IsDigit(s[a + 1])
      hour2 == \/ s[1] = "0" /\ IsDigit(s[2])
               \/ s[1] = "1" /\ IsDigit(s[2])
               \/ s[1] = "2" /\ IsDigit(s[2]) /\ DigitVal(s[2]) <= 3
  IN IF n = 1 /\ IsDigit(s[1]) THEN <<NoHour, int(s)>>
     ELSE IF n = 2 /\ minute2(1) THEN <<NoHour, int(s)>>
     ELSE IF n = 3 /\ IsDigit(s[1]) /\ minute2(2)
       THEN <<int(SubSeq(s, 1, 1)), int(SubSeq(s, 2, 3))>>
     ELSE IF n = 4 /\ hour2 /\ minute2(3)
       THEN <<int(SubSeq(s, 1, 2)), int(SubSeq(s, 3, 4))>>
     ELSE None

\* rst.fullmatch(s): [1-5][1-9][1-9]?
rst(s) ==
  /\ Len(s) \in {2, 3}
  /\ IsDigit(s[1]) /\ DigitVal(s[1]) \in 1..5
  /\ \A i \in 2..Len(s) : IsDigit(s[i]) /\ DigitVal(s[i]) \in 1..9

\* Contest.exchange.fullmatch(s): [0-9]{3,4}
exchange_reg(s) == Len(s) \in {3, 4} /\ AllDigits(s, 1, Len(s))

\* [(m.group(), m.start()) for m in word.finditer(string)], scanning from
\* offset start: the words of the string with their 0-based start offsets
RECURSIVE finditer(_, _)
finditer(string, start) ==
  LET n == Len(string)
      nonsp == {k \in start..(n - 1) : ~isspace(string[k + 1])}
  IN IF nonsp = {} THEN <<>>
     ELSE LET b == CHOOSE k \in nonsp : \A j \in nonsp : k <= j
              sp == {k \in b..(n - 1) : isspace(string[k + 1])}
              e == IF sp = {} THEN n ELSE CHOOSE k \in sp : \A j \in sp : k <= j
          IN <<[text |-> SubSeq(string, b + 1, e), start |-> b]>>
               \o finditer(string, e)

\* find_word(string, start): <<word, position before, position after>>
find_word(string, start) ==
  LET n == Len(string)
      nonsp == {k \in start..(n - 1) : ~isspace(string[k + 1])}
      b == IF nonsp = {} THEN (IF start < n THEN n ELSE start)
           ELSE CHOOSE k \in nonsp : \A j \in nonsp : k <= j
      sp == {k \in b..(n - 1) : isspace(string[k + 1])}
      e == IF sp = {} THEN (IF b < n THEN n ELSE b)
           ELSE CHOOSE k \in sp : \A j \in sp : k <= j
  IN <<SubSeq(string, b + 1, e), b, e>>

\* the bands table, limits in kHz
bands ==
  << [name |-> <<"1", "6", "0", "m">>,           lo |-> 1800,      hi |-> 2000],
     [name |-> <<"8", "0", "m">>,                lo |-> 3500,      hi |-> 4000],
     [name |-> <<"4", "0", "m">>,                lo |-> 7000,      hi |-> 7300],
     [name |-> <<"3", "0", "m">>,                lo |-> 10100,     hi |-> 10150],
     [name |-> <<"2", "0", "m">>,                lo |-> 14000,     hi |-> 14350],
     [name |-> <<"1", "7", "m">>,                lo |-> 18068,     hi |-> 18168],
     [name |-> <<"1", "5", "m">>,                lo |-> 21000,     hi |-> 21450],
     [name |-> <<"1", "2", "m">>,                lo |-> 24890,     hi |-> 24990],
     [name |-> <<"1", "0", "m">>,                lo |-> 28000,     hi |-> 29700],
     [name |-> <<"6", "m">>,                     lo |-> 50000,     hi |-> 54000],
     [name |-> <<"2", "m">>,                     lo |-> 144000,    hi |-> 148000],
     [name |-> <<"1", ".", "2", "5", "m">>,      lo |-> 219000,    hi |-> 225000],
     [name |-> <<"7", "0", "c", "m">>,           lo |-> 420000,    hi |-> 450000],
     [name |-> <<"3", "5", "c", "m">>,           lo |-> 902000,    hi |-> 928000],
     [name |-> <<"2", "3", "c", "m">>,           lo |-> 1240000,   hi |-> 1300000],
     [name |-> <<"1", "3", "c", "m">>,           lo |-> 2300000,   hi |-> 2450000],
     [name |-> <<"9", "c", "m">>,                lo |-> 3400000,   hi |-> 3475000],
     [name |-> <<"6", "c", "m">>,                lo |-> 5650000,   hi |-> 5850000],
     [name |-> <<"3", "c", "m">>,                lo |-> 10000000,  hi |-> 10500000],
     [name |-> <<"1", ".", "2", "5", "c", "m">>, lo |-> 24000000,  hi |-> 24250000],
     [name |-> <<"6", "m", "m">>,                lo |-> 47000000,  hi |-> 47200000],
     [name |-> <<"4", "m", "m">>,                lo |-> 75500000,  hi |-> 81500000],
     [name |-> <<"2", ".", "5", "m", "m">>,      lo |-> 122250000, hi |-> 123000000],
     [name |-> <<"2", "m", "m">>,                lo |-> 134000000, hi |-> 141000000],
     [name |-> <<"1", "m", "m">>,                lo |-> 241000000, hi |-> 250000000] >>

\* the units of the freq pattern: [kMG]?Hz | [mc]?m
freq_units ==
  { <<"H", "z">>, <<"k", "H", "z">>, <<"M", "H", "z">>, <<"G", "H", "z">>,
    <<"m">>, <<"m", "m">>, <<"c", "m">> }

\* group 1 of the freq pattern: (?:[0-9]+\.)?[0-9]+
freq_number(s) ==
  LET n == Len(s)
  IN /\ n > 0
     /\ \/ AllDigits(s, 1, n)
        \/ \E d \in 2..(n - 1) :
              s[d] = "." /\ AllDigits(s, 1, d - 1) /\ AllDigits(s, d + 1, n)

\* freq.fullmatch(s): the groups <<number, unit>> (unit None when absent), or None
freq(s) ==
  LET n == Len(s)
      us == {u \in freq_units :
               /\ Len(u) < n
               /\ SubSeq(s, n - Len(u) + 1, n) = u
               /\ freq_number(SubSeq(s, 1, n - Len(u)))}
  IN IF freq_number(s) THEN <<s, None>>
     ELSE IF us # {} THEN LET u == CHOOSE u \in us : TRUE
                          IN <<SubSeq(s, 1, n - Len(u)), u>>
     ELSE None

\* float(number) as <<integer part, decimals as an integer, number of decimals>>
float(number) ==
  LET n == Len(number)
      dots == {d \in 1..n : number[d] = "."}
  IN IF dots = {} THEN <<int(number), 0, 0>>
     ELSE LET d == CHOOSE d \in dots : TRUE
          IN <<int(SubSeq(number, 1, d - 1)), int(SubSeq(number, d + 1, n)), n - d>>

\* n >= f, for n a float(number) and f a band limit in kHz
float_ge(n, f) ==
  \/ n[1] > f \div 1000
  \/ n[1] = f \div 1000 /\ n[2] * 1000 >= (f % 1000) * Pow10(n[3])

\* n <= f, for n a float(number) and f a band limit in kHz
float_le(n, f) ==
  \/ n[1] < f \div 1000
  \/ n[1] = f \div 1000 /\ n[2] * 1000 <= (f % 1000) * Pow10(n[3])

\* match_freq(s): val is the frequency string, or None for False; exc is
\* "NameError" where the function compares the unit with the undefined names
\* kHz and GHz.  Only mul = 1.0 gets past that comparison.
match_freq(s) ==
  LET m == freq(s)
  IN IF m = None THEN [exc |-> "", val |-> None]
     ELSE IF m[2] # None
       THEN IF endswith(s, "m")
              THEN IF \E i \in 1..Len(bands) : bands[i].name = s
                     THEN [exc |-> "", val |-> s]
                     ELSE [exc |-> "", val |-> None]
              ELSE [exc |-> "NameError", val |-> None]
     ELSE LET n == float(m[1])
          IN IF \E i \in 1..Len(bands) :
                   float_ge(n, bands[i].lo) /\ float_le(n, bands[i].hi)
               THEN [exc |-> "", val |-> m[1] \o <<"M", "H", "z">>]
               ELSE [exc |-> "", val |-> None]

\* ------------------------------------------------------------------------
\* exceptions and results of the constructors
\* ------------------------------------------------------------------------

\* a call that returned val
Return(val) == [exc |-> "", message |-> "", pos |-> 0, val |-> val]

\* raise LogException(message, pos)
LogException(message, pos) ==
  [exc |-> "LogException", message |-> message, pos |-> pos, val |-> None]

\* an exception of another class, which parse_input does not catch
Raise(class) == [exc |-> class, message |-> "", pos |-> 0, val |-> None]

\* ------------------------------------------------------------------------
\* class Activation
\* ------------------------------------------------------------------------

\* the last day of a month, as datetime.date checks it
days_in_month(y, m) ==
  IF m \in {4, 6, 9, 11} THEN 30
  ELSE IF m = 2
    THEN (IF y % 4 = 0 /\ (y % 100 # 0 \/ y % 400 = 0) THEN 29 ELSE 28)
  ELSE 31

\* date(y, m, d) does not raise ValueError
date_ok(y, m, d) == y >= 1 /\ m \in 1..12 /\ d >= 1 /\ d <= days_in_month(y, m)

\* contest.search(notes) for the pattern contest:(\w+)\s* : the leftmost
\* match as [start, end, name] with 0-based offsets, or None
contest_search(notes) ==
  LET n == Len(notes)
      key == <<"c", "o", "n", "t", "e", "s", "t", ":">>
      starts == {p \in 0..(n - 9) :
                   /\ SubSeq(notes, p + 1, p + 8) = key
                   /\ IsWordChar(notes[p + 9])}
  IN IF starts = {} THEN None
     ELSE LET p == CHOOSE k \in starts : \A j \in starts : k <= j
              nonw == {k \in (p + 8)..(n - 1) : ~IsWordChar(notes[k + 1])}
              e == IF nonw = {} THEN n ELSE CHOOSE k \in nonw : \A j \in nonw : k <= j
              nons == {k \in e..(n - 1) : ~isspace(notes[k + 1])}
              f == IF nons = {} THEN n ELSE CHOOSE k \in nons : \A j \in nons : k <= j
          IN [start |-> p, end |-> f, name |-> SubSeq(notes, p + 9, e)]

\* Contest(name) raises ValueError for every name but "fd"
ContestDefined(name) == name = <<"f", "d">>

\* after_call that stays on the callsign
after_call_stays(string, w) == w

\* the word after w when w matched the callsign pattern, else w itself
after_call(string, w) == IF call(w[1]) THEN find_word(string, w[3]) ELSE w

\* the word after w when w matched the date pattern, else w itself
after_date(string, w) == IF date_reg(w[1]) # None THEN find_word(string, w[3]) ELSE w

\* notes = string[end:].strip() after the word w
notes_after(string, w) == strip(SubSeq(string, w[3] + 1, Len(string)))

\* the body of Activation.__init__ for the words w1, w2, w3 tried as
\* callsign, date and SOTA reference, the match m2 of the date, the notes
\* and the match m of the contest pattern in them
new_activation(prev, w1, w2, w3, m2, notes, m) ==
  IF ~call(w1[1]) /\ prev = None
    THEN LogException("Error in activation definition, missing callsign", w1[2])
  ELSE IF m2 # None /\ ~date_ok(int(m2[1]), int(m2[2]), int(m2[3]))
    THEN LogException("Error in activation definition, invalid date format", w2[2])
  ELSE IF m2 = None /\ prev = None
    THEN LogException("Error in activation definition, missing date", w2[2])
  ELSE IF ~sota_ref(w3[1]) /\ w3[1] # <<"*">>
    THEN LogException("Error in activation definition, invalid SOTA reference detected", w3[2])
  ELSE IF m # None /\ ~ContestDefined(m.name)
    THEN Raise("ValueError")
  ELSE Return(
    [previous |-> prev,
     callsign |-> IF call(w1[1]) THEN upper(w1[1]) ELSE prev.callsign,
     date     |-> IF m2 # None THEN <<int(m2[1]), int(m2[2]), int(m2[3])>>
                  ELSE prev.date,
     ref      |-> IF sota_ref(w3[1]) THEN upper(w3[1]) ELSE <<>>,
     contest  |-> IF m # None THEN m.name ELSE None,
     notes    |-> IF m # None
                    THEN SubSeq(notes, 1, m.start) \o SubSeq(notes, m.end + 1, Len(notes))
                    ELSE notes,
     qsos     |-> <<>>])

\* the words of the header tried as callsign, date and SOTA reference
header_words(string, w1) ==
  <<w1, after_call(string, w1), after_date(string, after_call(string, w1))>>

\* new_activation on the words ws of the header and its notes
activation_of(string, prev, ws, notes) ==
  new_activation(prev, ws[1], ws[2], ws[3], date_reg(ws[2][1]), notes,
                 contest_search(notes))

\* the header's words and the notes after them
activation_parts(string, prev, ws) ==
  activation_of(string, prev, ws, notes_after(string, ws[3]))

\* Activation.__init__(string, prev): the new Activation object, or the
\* exception raised.  prev is an Activation or None.
Activation(string, prev) ==
  activation_parts(string, prev, header_words(string, find_word(string, 0)))

\* ------------------------------------------------------------------------
\* class QSO
\* ------------------------------------------------------------------------

\* ' '.join(x[0] for x in words)
RECURSIVE join(_)
join(words) ==
  IF Len(words) = 0 THEN <<>>
  ELSE IF Len(words) = 1 THEN words[1].text
  ELSE words[1].text \o <<" ">> \o join(Tail(words))

cw_modes == {<<"c", "w">>, <<"s", "s", "b">>, <<"f", "m">>, <<"a", "m">>}

data_modes ==
  { <<"d", "a", "t", "a">>, <<"p", "s", "k">>, <<"p", "s", "k", "3", "1">>,
    <<"p", "s", "k", "6", "3">>, <<"r", "t", "t", "y">>,
    <<"f", "s", "k", "4", "4", "1">>, <<"j", "t", "6", "5">> }

other_modes == {<<"o", "t", "h", "e", "r">>}

\* the mode a word stands for, or None
match_mode(w) ==
  IF lower(w) \in cw_modes THEN upper(w)
  ELSE IF lower(w) \in data_modes THEN <<"D", "a", "t", "a">>
  ELSE IF lower(w) \in other_modes THEN <<"O", "t", "h", "e", "r">>
  ELSE None

\* the categories t of the word w at index i (0-based) of the line; a
\* category the word does not match is None.  exchange is the contest's
\* exchange pattern, or None.
categories(w, i, exchange) ==
  [time |-> IF i < 1 THEN time_reg(w) ELSE None,
   call |-> IF i < 2 /\ call(w) THEN upper(w) ELSE None,
   freq |-> IF i < 3 THEN match_freq(w).val ELSE None,
   mode |-> IF i < 4 THEN match_mode(w) ELSE None,
   rst  |-> IF i < 6 /\ rst(w) THEN w ELSE None,
   sota |-> IF sota_ref(w) THEN upper(w) ELSE None,
   exch |-> IF exchange # None /\ i < 7 /\ exchange_reg(w) THEN w ELSE None]

\* words = [(m.group(), m.start(), {}) ...] with the categories filled in
classify(string, exchange) ==
  LET ws == finditer(string, 0)
  IN [k \in 1..Len(ws) |->
        [text |-> ws[k].text, start |-> ws[k].start,
         t |-> categories(ws[k].text, k - 1, exchange)]]

\* match_freq raised NameError on one of the first three words
classify_raises(string) ==
  LET ws == finditer(string, 0)
  IN \E k \in 1..Len(ws) : k - 1 < 3 /\ match_freq(ws[k].text).exc # ""

\* slot e (0-based) of typeorder is typeorder[e + 1]
typeorder == <<"time", "call", "freq", "mode", "rst", "rst", "exch", "sota">>

\* the forward scan over the words from index i on: every word goes to the
\* first slot after lastelem whose type it has; the first word with no such
\* slot ends the scan and starts the notes
RECURSIVE scan(_, _, _, _)
scan(words, i, lastelem, wlist) ==
  IF i >= Len(words) THEN [wlist |-> wlist, noteselem |-> 7]
  ELSE LET w == words[i + 1]
           es == {e \in (lastelem + 1)..(Len(typeorder) - 1) :
                    w.t[typeorder[e + 1]] # None}
       IN IF es = {} THEN [wlist |-> wlist, noteselem |-> i]
          ELSE LET e == CHOOSE k \in es : \A j \in es : k <= j
               IN scan(words, i + 1, e, [wlist EXCEPT ![e + 1] = w])

\* felist = [(i+2, w) for i, w in enumerate(wlist[2:6]) if w]
felist_of(wlist) ==
  LET F[e \in 1..5] ==
        IF e = 1 THEN <<>>
        ELSE F[e - 1] \o (IF wlist[e + 1] # None THEN <<[slot |-> e, w |-> wlist[e + 1]]>>
                          ELSE <<>>)
  IN F[5]

\* move_back that leaves the moved word in its old slot as well
move_back_copies(st, i) ==
  LET fe == st.felist
      wl == st.wlist
      last == fe[Len(fe)]
      moves == wl[i + 1] = None /\ fe # <<>> /\ last.w.t[typeorder[i + 1]] # None
      wl2 == IF moves THEN [wl EXCEPT ![i + 1] = last.w] ELSE wl
      fe2 == IF moves THEN SubSeq(fe, 1, Len(fe) - 1) ELSE fe
      fe3 == IF fe2 # <<>> /\ fe2[Len(fe2)].slot = i
               THEN SubSeq(fe2, 1, Len(fe2) - 1) ELSE fe2
  IN [wlist |-> wl2, felist |-> fe3]

\* move_back that moves the last word whatever its categories
move_back_any(st, i) ==
  LET fe == st.felist
      wl == st.wlist
      last == fe[Len(fe)]
      moves == wl[i + 1] = None /\ fe # <<>>
      wl2 == IF moves THEN [wl EXCEPT ![i + 1] = last.w, ![last.slot + 1] = None]
             ELSE wl
      fe2 == IF moves THEN SubSeq(fe, 1, Len(fe) - 1) ELSE fe
      fe3 == IF fe2 # <<>> /\ fe2[Len(fe2)].slot = i
               THEN SubSeq(fe2, 1, Len(fe2) - 1) ELSE fe2
  IN [wlist |-> wl2, felist |-> fe3]

\* one round of the loop that moves back multiple mapped words, for slot i
move_back(st, i) ==
  LET fe == st.felist
      wl == st.wlist
      last == fe[Len(fe)]
      moves == wl[i + 1] = None /\ fe # <<>> /\ last.w.t[typeorder[i + 1]] # None
      wl2 == IF moves THEN [wl EXCEPT ![i + 1] = last.w, ![last.slot + 1] = None]
             ELSE wl
      fe2 == IF moves THEN SubSeq(fe, 1, Len(fe) - 1) ELSE fe
      fe3 == IF fe2 # <<>> /\ fe2[Len(fe2)].slot = i
               THEN SubSeq(fe2, 1, Len(fe2) - 1) ELSE fe2
  IN [wlist |-> wl2, felist |-> fe3]

\* reassign that moves nothing
reassign_skipped(wlist) == wlist

\* for i in range(6, 3, -1)
reassign(wlist) ==
  move_back(move_back(move_back([wlist |-> wlist, felist |-> felist_of(wlist)],
                                6), 5), 4).wlist

\* wlist after the forward scan and the moving back, and noteselem
slots(words) ==
  LET fw == scan(words, 0, -1, [e \in 1..8 |-> None])
  IN [wlist |-> reassign(fw.wlist), noteselem |-> fw.noteselem]

\* the value of the loop variable i where the minimum change check reads it:
\* the last value of range(6, 3, -1)
gate_i == 4

\* def_rst with the report of CW for every mode
def_rst_cw_only(mode) == <<"5", "9", "9">>

\* the default report of a mode
def_rst(mode) ==
  IF mode = <<"C", "W">> \/ mode = <<"D", "a", "t", "a">>
    THEN <<"5", "9", "9">> ELSE <<"5", "9">>

\* qso_time without the step to the next hour for a smaller bare minute
qso_time_same_hour(wl, prev) ==
  IF wl[1] # None /\ wl[1].t.time[1] # NoHour THEN wl[1].t.time
  ELSE IF wl[1] # None THEN <<prev.time[1], wl[1].t.time[2]>>
  ELSE prev.time

\* self.time of a line; prev is not None where the code reads it
qso_time(wl, prev) ==
  IF wl[1] # None /\ wl[1].t.time[1] # NoHour THEN wl[1].t.time
  ELSE IF wl[1] # None
    THEN LET minute == wl[1].t.time[2]
         IN IF minute < prev.time[2]
              THEN <<(IF prev.time[1] + 1 = 24 THEN 0 ELSE prev.time[1] + 1), minute>>
              ELSE <<prev.time[1], minute>>
  ELSE prev.time

\* the day adjustment for multiple day activation
qso_day(time, prev) ==
  IF prev # None
    THEN (IF prev.time[1] * 60 + prev.time[2] > time[1] * time[2]
            THEN prev.day + 1 ELSE prev.day)
    ELSE 0

\* inherited without the fallback to the previous QSO
inherited_nothing(w, type, prev_value) == IF w = None THEN None ELSE w.t[type]

\* call, freq and mode of a line: the value of the word w in the slot, or
\* the previous QSO's value when the slot is empty (prev is not None there)
inherited(w, type, prev_value) == IF w = None THEN prev_value ELSE w.t[type]

\* the body of QSO.__init__ from the minimum change check on, for the words
\* of the line, their slots wl, noteselem, and the time and the mode the
\* line resolves to
new_qso(words, wl, noteselem, prev, time, mode) ==
  IF wl[2] = None /\ wl[3] = None /\ wl[4] = None
    THEN (IF gate_i < Len(words)
            THEN LogException("Invalid change from previous QSO",
                              words[gate_i + 1].start)
            ELSE Raise("IndexError"))
  ELSE IF (wl[1] = None \/ wl[1].t.time[1] = NoHour) /\ prev = None
    THEN LogException("Missing time value", 0)
  ELSE IF wl[2] = None /\ prev = None THEN LogException("Missing callsign", 0)
  ELSE IF wl[3] = None /\ prev = None THEN LogException("Missing frequency", 0)
  ELSE IF wl[4] = None /\ prev = None THEN LogException("Missing mode", 0)
  ELSE IF wl[5] # None /\ Len(wl[5].t.rst) # Len(def_rst(mode))
    THEN LogException("Invalid RST for this mode", 0)
  ELSE IF wl[6] # None /\ Len(wl[6].t.rst) # Len(def_rst(mode))
    THEN LogException("Invalid RST for this mode", 0)
  ELSE Return(
    [time     |-> time,
     callsign |-> inherited(wl[2], "call", prev.callsign),
     freq     |-> inherited(wl[3], "freq", prev.freq),
     mode     |-> mode,
     sent     |-> IF wl[5] = None THEN def_rst(mode) ELSE wl[5].t.rst,
     rcvd     |-> IF wl[6] = None THEN def_rst(mode) ELSE wl[6].t.rst,
     exch     |-> IF wl[7] # None THEN wl[7].t.exch ELSE None,
     ref      |-> IF wl[8] # None THEN wl[8].t.sota ELSE None,
     notes    |-> IF noteselem < Len(words)
                    THEN join(SubSeq(words, noteselem + 1, Len(words)))
                    ELSE <<>>,
     day      |-> qso_day(time, prev)])

\* new_qso on the slots sl of the words
qso_of(words, sl, prev) ==
  new_qso(words, sl.wlist, sl.noteselem, prev, qso_time(sl.wlist, prev),
          inherited(sl.wlist[4], "mode", prev.mode))

\* the classified words of the line: no word, a NameError, or their slots
qso_words(string, words, prev) ==
  IF Len(words) = 0 THEN LogException("Empty QSO", 0)
  ELSE IF classify_raises(string) THEN Raise("NameError")
  ELSE qso_of(words, slots(words), prev)

\* QSO.__init__(string, prev, exchange): the new QSO object, or the exception
\* raised.  prev is a QSO or None; an attribute the code does not set is None.
QSO(string, prev, exchange) == qso_words(string, classify(string, exchange), prev)

\* self.qsos.append(q), unless the constructor of q raised
append_qso(self, q) ==
  IF q.exc # "" THEN q
  ELSE Return([self EXCEPT !.qsos = Append(self.qsos, q.val)])

\* add_qso that takes the first QSO of the list as the previous one
add_qso_first_as_previous(self, string) ==
  append_qso(self,
             QSO(string,
                 IF self.qsos # <<>> THEN self.qsos[1] ELSE None,
                 IF self.contest # None THEN self.contest ELSE None))

\* add_qso that takes the last QSO of the previous activation as the previous
\* one of the first QSO
add_qso_across_activations(self, string) ==
  append_qso(self,
             QSO(string,
                 IF self.qsos # <<>> THEN self.qsos[Len(self.qsos)]
                 ELSE IF self.previous # None /\ self.previous.qsos # <<>>
                   THEN self.previous.qsos[Len(self.previous.qsos)]
                 ELSE None,
                 IF self.contest # None THEN self.contest ELSE None))

\* Activation.add_qso(string): the Activation with the new QSO appended, or
\* the exception the QSO constructor raised
add_qso(self, string) ==
  append_qso(self,
             QSO(string,
                 IF self.qsos # <<>> THEN self.qsos[Len(self.qsos)] ELSE None,
                 IF self.contest # None THEN self.contest ELSE None))

\* ------------------------------------------------------------------------
\* input lines
\* ------------------------------------------------------------------------

\* an activation header: callsign, date, SOTA reference: "W1ABC 2020-01-02 W1/AB-123"
header ==
  <<"W", "1", "A", "B", "C", " ", "2", "0", "2", "0", "-", "0", "1",
    "-", "0", "2", " ", "W", "1", "/", "A", "B", "-", "1", "2", "3">>

\* a contact with every field but the notes: "1458 W1ABC 14 CW 579 589 W1/AB-123"
full_qso ==
  <<"1", "4", "5", "8", " ", "W", "1", "A", "B", "C", " ", "1", "4",
    " ", "C", "W", " ", "5", "7", "9", " ", "5", "8", "9", " ", "W",
    "1", "/", "A", "B", "-", "1", "2", "3">>

\* a contact in the last hour of the day: "2358 W1ABC 14 CW"
late_qso ==
  <<"2", "3", "5", "8", " ", "W", "1", "A", "B", "C", " ", "1", "4",
    " ", "C", "W">>

\* a bare minute and a callsign: "02 W1XYZ"
minute_qso ==
  <<"0", "2", " ", "W", "1", "X", "Y", "Z">>

\* a bare minute and a callsign: "58 W2AA"
same_minute ==
  <<"5", "8", " ", "W", "2", "A", "A">>

\* a callsign alone: "W2AA"
call_only ==
  <<"W", "2", "A", "A">>

\* a full time and a callsign: "1300 W2AA"
early_qso ==
  <<"1", "3", "0", "0", " ", "W", "2", "A", "A">>

\* a full time and a mode: "1459 SSB"
mode_change ==
  <<"1", "4", "5", "9", " ", "S", "S", "B">>

\* a callsign and a two-digit report: "W2AA 59"
short_rst ==
  <<"W", "2", "A", "A", " ", "5", "9">>

\* a pair of reports: "599 589"
rst_pair ==
  <<"5", "9", "9", " ", "5", "8", "9">>

\* a pair of reports and notes: "599 589 x y z"
rst_notes ==
  <<"5", "9", "9", " ", "5", "8", "9", " ", "x", " ", "y", " ", "z">>

\* time, callsign and frequency: "1458 W1ABC 7"
no_mode ==
  <<"1", "4", "5", "8", " ", "W", "1", "A", "B", "C", " ", "7">>

\* an empty line: ""
blank ==
  <<>>

\* a comment-only line: "# note"
comment ==
  <<"#", " ", "n", "o", "t", "e">>

\* the lines an input file is made of
Lines ==
  { header, full_qso, late_qso, minute_qso, same_minute,
    call_only, early_qso, mode_change, short_rst, rst_pair,
    rst_notes, no_mode, blank, comment }

\* the largest number of lines of an input file
MaxLines == 3

\* the lines of the longer input files, with several activations
LongLines ==
  { header, full_qso, blank, call_only, minute_qso, mode_change, early_qso,
    no_mode, rst_notes }

\* the largest number of lines of a longer input file
MaxLong == 5

\* the largest number of failing lines of a longer input file
MaxErrors == 1

\* an activation header with a contest: "W1ABC 2020-01-02 W1/AB-123 contest:fd"
contest_header ==
  <<"W", "1", "A", "B", "C", " ", "2", "0", "2", "0", "-", "0", "1", "-",
    "0", "2", " ", "W", "1", "/", "A", "B", "-", "1", "2", "3", " ", "c",
    "o", "n", "t", "e", "s", "t", ":", "f", "d">>

\* a contact with the time written hh:mm: "14:03 W1ABC 14.250 CW 599 588"
colon_qso ==
  <<"1", "4", ":", "0", "3", " ", "W", "1", "A", "B", "C", " ", "1", "4",
    ".", "2", "5", "0", " ", "C", "W", " ", "5", "9", "9", " ", "5", "8",
    "8">>

\* the same contact with the time written hhmm: "1403 W1ABC 14.250 CW 599 588"
plain_qso ==
  <<"1", "4", "0", "3", " ", "W", "1", "A", "B", "C", " ", "1", "4", ".",
    "2", "5", "0", " ", "C", "W", " ", "5", "9", "9", " ", "5", "8", "8">>

\* a contact with the frequency in MHz: "1458 W1ABC 14MHz CW"
unit_qso ==
  <<"1", "4", "5", "8", " ", "W", "1", "A", "B", "C", " ", "1", "4", "M",
    "H", "z", " ", "C", "W">>

\* a contact with the frequency in kHz: "1458 W1ABC 14250kHz CW"
khz_qso ==
  <<"1", "4", "5", "8", " ", "W", "1", "A", "B", "C", " ", "1", "4", "2",
    "5", "0", "k", "H", "z", " ", "C", "W">>

\* a contact with a frequency in GHz outside every band: "1458 W1ABC 2GHz CW"
ghz_qso ==
  <<"1", "4", "5", "8", " ", "W", "1", "A", "B", "C", " ", "2", "G", "H",
    "z", " ", "C", "W">>

\* a contact with the band instead of the frequency: "1458 W1ABC 20m CW"
band_qso ==
  <<"1", "4", "5", "8", " ", "W", "1", "A", "B", "C", " ", "2", "0", "m",
    " ", "C", "W">>

\* a contact in SSB without reports: "1458 W1ABC 14 SSB"
ssb_qso ==
  <<"1", "4", "5", "8", " ", "W", "1", "A", "B", "C", " ", "1", "4", " ",
    "S", "S", "B">>

\* a contact in RTTY without reports: "1458 W1ABC 14 rtty"
rtty_qso ==
  <<"1", "4", "5", "8", " ", "W", "1", "A", "B", "C", " ", "1", "4", " ",
    "r", "t", "t", "y">>

\* a contact in another mode without reports: "1458 W1ABC 14 other"
other_qso ==
  <<"1", "4", "5", "8", " ", "W", "1", "A", "B", "C", " ", "1", "4", " ",
    "o", "t", "h", "e", "r">>

\* a contact with every field and an exchange: "1458 W1ABC 14 CW 599 599 001 W1/AB-123"
contest_qso ==
  <<"1", "4", "5", "8", " ", "W", "1", "A", "B", "C", " ", "1", "4", " ",
    "C", "W", " ", "5", "9", "9", " ", "5", "9", "9", " ", "0", "0", "1",
    " ", "W", "1", "/", "A", "B", "-", "1", "2", "3">>

\* a contact with every field and notes: "1458 W1ABC 14 CW 599 599 W1/AB-123 QRP 5W"
noted_qso ==
  <<"1", "4", "5", "8", " ", "W", "1", "A", "B", "C", " ", "1", "4", " ",
    "C", "W", " ", "5", "9", "9", " ", "5", "9", "9", " ", "W", "1", "/",
    "A", "B", "-", "1", "2", "3", " ", "Q", "R", "P", " ", "5", "W">>

\* a full time and a frequency: "1410 21"
time_freq ==
  <<"1", "4", "1", "0", " ", "2", "1">>

\* a full time, a frequency and notes: "1410 21 x y z"
time_freq_notes ==
  <<"1", "4", "1", "0", " ", "2", "1", " ", "x", " ", "y", " ", "z">>

\* a callsign, a frequency, a mode and one report: "W2AA 21 CW 145"
single_report ==
  <<"W", "2", "A", "A", " ", "2", "1", " ", "C", "W", " ", "1", "4", "5">>

\* the headers of the files of one worded contact line
Headers == {header, contest_header}

\* the words the generated contact lines are made of: "1410", "W2AA", "21",
\* "145", "CW", "x"
Words ==
  { <<"1", "4", "1", "0">>, <<"W", "2", "A", "A">>, <<"2", "1">>,
    <<"1", "4", "5">>, <<"C", "W">>, <<"x">> }

\* the largest number of words of a generated contact line
MaxWords == 4

\* the lines of n words out of Words, with one space between two words
RECURSIVE lines_of(_)
lines_of(n) ==
  IF n = 1 THEN Words
  ELSE {l \o <<" ">> \o w : l \in lines_of(n - 1), w \in Words}

\* the contact lines written out above
NamedLines ==
  { colon_qso, plain_qso, unit_qso, khz_qso, ghz_qso, band_qso, late_qso,
    ssb_qso, rtty_qso, other_qso, contest_qso, noted_qso, time_freq,
    time_freq_notes, rst_pair, call_only, mode_change }

\* the contact lines of the files of one worded contact line
WordLines == NamedLines \cup UNION {lines_of(n) : n \in 1..MaxWords}

\* a header without a callsign: "2020-01-03 W2/CD-456"
callless_header ==
  <<"2", "0", "2", "0", "-", "0", "1", "-", "0", "3", " ", "W", "2", "/",
    "C", "D", "-", "4", "5", "6">>

\* a header without a date: "W2AA W2/CD-456"
dateless_header ==
  <<"W", "2", "A", "A", " ", "W", "2", "/", "C", "D", "-", "4", "5", "6">>

\* the header of a chase: "W1ABC 2020-01-02 *"
chase_header ==
  <<"W", "1", "A", "B", "C", " ", "2", "0", "2", "0", "-", "0", "1", "-",
    "0", "2", " ", "*">>

\* a header of a SOTA reference alone: "W2/CD-456"
bare_ref ==
  <<"W", "2", "/", "C", "D", "-", "4", "5", "6">>

\* a header with the 30th of February: "W1ABC 2020-02-30 W1/AB-123"
baddate_header ==
  <<"W", "1", "A", "B", "C", " ", "2", "0", "2", "0", "-", "0", "2", "-",
    "3", "0", " ", "W", "1", "/", "A", "B", "-", "1", "2", "3">>

\* the lines of the files of several headers
HeaderLines ==
  { header, callless_header, dateless_header, chase_header, bare_ref,
    baddate_header, call_only, full_qso, blank }

\* the largest number of lines of a file of several headers
MaxHeaderLines == 4

\* the lines of the files with blank and comment lines
BlankLines == {header, full_qso, call_only, blank, comment}

\* the largest number of lines of a file with blank and comment lines
MaxBlankLines == 6

\* ------------------------------------------------------------------------
\* parse_input
\* ------------------------------------------------------------------------

VARIABLES
  handle,               \* the lines read from the input so far
  line,                 \* the line read last
  comment_line,
  blank_line,
  possible_blank_line,
  activation,           \* the open Activation, or None
  errors,               \* (cnt, str(e), s, e.pos) of every LogException caught
  cnt,                  \* the number of lines read
  pc,                   \* "scan" in the loop, "done" after a normal return,
                        \* "raised" after an exception left parse_input
  raised,               \* the class of that exception, or ""
  stdout,               \* the rows printed by print_qsos
  stderr                \* the errors printed

vars ==
  <<handle, line, comment_line, blank_line, possible_blank_line, activation,
    errors, cnt, pc, raised, stdout, stderr>>

\* s, d, c = line.partition('#'); s = s.strip() : <<s, d>>
partition(l) ==
  LET hs == {k \in 1..Len(l) : l[k] = "#"}
  IN IF hs = {} THEN <<strip(l), <<>>>>
     ELSE LET h == CHOOSE k \in hs : \A j \in hs : k <= j
          IN <<strip(SubSeq(l, 1, h - 1)), <<"#">>>>

\* str(e) of a LogException: the exception's arguments
str(e) == <<e.message, e.pos>>

\* the entry appended to errors for the exception e caught on line s
error_entry(n, e, s) == <<n, str(e), s, e.pos>>

\* empty_line_flags that takes a blank line as a separator whenever an
\* activation is open
empty_line_flags_any_activation(d, act, cl, bl, pbl) ==
  IF d # <<>>
    THEN [comment_line |-> TRUE, blank_line |-> bl, possible_blank_line |-> FALSE]
  ELSE IF act # None
    THEN (IF cl
            THEN [comment_line |-> FALSE, blank_line |-> bl, possible_blank_line |-> TRUE]
            ELSE [comment_line |-> cl, blank_line |-> TRUE, possible_blank_line |-> pbl])
  ELSE [comment_line |-> cl, blank_line |-> bl, possible_blank_line |-> pbl]

\* empty_line_flags in which a comment leaves possible_blank_line as it is
empty_line_flags_keeps_pending(d, act, cl, bl, pbl) ==
  IF d # <<>>
    THEN [comment_line |-> TRUE, blank_line |-> bl, possible_blank_line |-> pbl]
  ELSE IF act # None /\ act.qsos # <<>>
    THEN (IF cl
            THEN [comment_line |-> FALSE, blank_line |-> bl, possible_blank_line |-> TRUE]
            ELSE [comment_line |-> cl, blank_line |-> TRUE, possible_blank_line |-> pbl])
  ELSE [comment_line |-> cl, blank_line |-> bl, possible_blank_line |-> pbl]

\* the flags after a line without content; d is the comment marker or empty
empty_line_flags(d, act, cl, bl, pbl) ==
  IF d # <<>>
    THEN [comment_line |-> TRUE, blank_line |-> bl, possible_blank_line |-> FALSE]
  ELSE IF act # None /\ act.qsos # <<>>
    THEN (IF cl
            THEN [comment_line |-> FALSE, blank_line |-> bl, possible_blank_line |-> TRUE]
            ELSE [comment_line |-> cl, blank_line |-> TRUE, possible_blank_line |-> pbl])
  ELSE [comment_line |-> cl, blank_line |-> bl, possible_blank_line |-> pbl]

\* promoted that leaves blank_line as it is
promoted_never(bl, pbl) == bl

\* blank_line where a normal line tests it: a pending possible_blank_line
\* has been promoted
promoted(bl, pbl) == IF pbl THEN TRUE ELSE bl

\* starts_activation without the test of blank_line
starts_activation_first_only(bl, act) == act = None

\* the test that sends a normal line to the Activation constructor
starts_activation(bl, act) == bl \/ act = None

\* Activation.print_qsos() in the default format: the rows of the previous
\* activations, then one row for each QSO
RECURSIVE print_qsos(_)
print_qsos(self) ==
  (IF self.previous # None THEN print_qsos(self.previous) ELSE <<>>)
    \o [k \in 1..Len(self.qsos) |->
          [callsign |-> self.callsign, ref |-> self.ref, date |-> self.date,
           time |-> self.qsos[k].time, freq |-> self.qsos[k].freq,
           mode |-> self.qsos[k].mode, qso_callsign |-> self.qsos[k].callsign,
           qso_ref |-> self.qsos[k].ref, notes |-> self.qsos[k].notes]]

Init ==
  /\ handle = <<>>
  /\ line = <<>>
  /\ comment_line = FALSE
  /\ blank_line = FALSE
  /\ possible_blank_line = FALSE
  /\ activation = None
  /\ errors = <<>>
  /\ cnt = 0
  /\ pc = "scan"
  /\ raised = ""
  /\ stdout = <<>>
  /\ stderr = <<>>

\* the outcome r of a constructor call on the normal line s: the exception
\* is caught and recorded, or leaves parse_input
Caught(r, s) ==
  /\ r.exc = "LogException"
  /\ errors' = Append(errors, error_entry(cnt + 1, r, s))
  /\ UNCHANGED <<activation, pc, raised>>

Uncaught(r) ==
  /\ r.exc \notin {"", "LogException"}
  /\ pc' = "raised"
  /\ raised' = r.exc
  /\ UNCHANGED <<activation, errors>>

\* a loop iteration on a line without content: a blank or a comment-only line
EmptyLine(l) ==
  /\ pc = "scan"
  /\ partition(l)[1] = <<>>
  /\ LET f == empty_line_flags(partition(l)[2], activation, comment_line,
                               blank_line, possible_blank_line)
     IN /\ comment_line' = f.comment_line
        /\ blank_line' = f.blank_line
        /\ possible_blank_line' = f.possible_blank_line
  /\ handle' = Append(handle, l)
  /\ line' = l
  /\ cnt' = cnt + 1
  /\ UNCHANGED <<activation, errors, pc, raised, stdout, stderr>>

\* a loop iteration on a normal line that is taken as an activation header
HeaderLine(l) ==
  /\ pc = "scan"
  /\ partition(l)[1] # <<>>
  /\ starts_activation(promoted(blank_line, possible_blank_line), activation)
  /\ LET s == partition(l)[1]
         r == Activation(s, activation)
     IN \/ /\ r.exc = ""
           /\ activation' = r.val
           /\ blank_line' = FALSE
           /\ UNCHANGED <<errors, pc, raised>>
        \/ /\ Caught(r, s)
           /\ blank_line' = promoted(blank_line, possible_blank_line)
        \/ /\ Uncaught(r)
           /\ blank_line' = promoted(blank_line, possible_blank_line)
  /\ comment_line' = FALSE
  /\ possible_blank_line' = FALSE
  /\ handle' = Append(handle, l)
  /\ line' = l
  /\ cnt' = cnt + 1
  /\ UNCHANGED <<stdout, stderr>>

\* a loop iteration on a normal line that is taken as a contact of the open
\* activation
ContactLine(l) ==
  /\ pc = "scan"
  /\ partition(l)[1] # <<>>
  /\ ~starts_activation(promoted(blank_line, possible_blank_line), activation)
  /\ LET s == partition(l)[1]
         r == add_qso(activation, s)
     IN \/ /\ r.exc = ""
           /\ activation' = r.val
           /\ UNCHANGED <<errors, pc, raised>>
        \/ Caught(r, s)
        \/ Uncaught(r)
  /\ comment_line' = FALSE
  /\ blank_line' = promoted(blank_line, possible_blank_line)
  /\ possible_blank_line' = FALSE
  /\ handle' = Append(handle, l)
  /\ line' = l
  /\ cnt' = cnt + 1
  /\ UNCHANGED <<stdout, stderr>>

\* EndOfInput that prints the activations also after reporting errors
EndOfInput_prints_anyway ==
  /\ pc = "scan"
  /\ IF activation = None /\ errors = <<>>
       THEN /\ pc' = "raised"
            /\ raised' = "AttributeError"
            /\ UNCHANGED <<stdout, stderr>>
     ELSE /\ stderr' = errors
          /\ stdout' = IF activation = None THEN <<>> ELSE print_qsos(activation)
          /\ pc' = "done"
          /\ UNCHANGED raised
  /\ UNCHANGED <<handle, line, comment_line, blank_line, possible_blank_line,
                 activation, errors, cnt>>

\* the end of the input: the errors are reported, or the activations printed
EndOfInput ==
  /\ pc = "scan"
  /\ IF errors # <<>>
       THEN /\ stderr' = errors
            /\ pc' = "done"
            /\ UNCHANGED <<stdout, raised>>
     ELSE IF activation = None
       THEN /\ pc' = "raised"
            /\ raised' = "AttributeError"
            /\ UNCHANGED <<stdout, stderr>>
     ELSE /\ stdout' = print_qsos(activation)
          /\ pc' = "done"
          /\ UNCHANGED <<stderr, raised>>
  /\ UNCHANGED <<handle, line, comment_line, blank_line, possible_blank_line,
                 activation, errors, cnt>>

\* one iteration of the loop over the lines of the input
ReadLine(l) == EmptyLine(l) \/ HeaderLine(l) \/ ContactLine(l)

\* input files of up to MaxLines lines out of Lines
Next ==
  \/ cnt < MaxLines /\ \E l \in Lines : ReadLine(l)
  \/ EndOfInput

Spec == Init /\ [][Next]_vars

\* input files of up to MaxLong lines out of LongLines, of which at most
\* MaxErrors fail
NextLong ==
  \/ cnt < MaxLong /\ \E l \in LongLines : ReadLine(l) /\ Len(errors') <= MaxErrors
  \/ EndOfInput

SpecLong == Init /\ [][NextLong]_vars

\* input files of a header, a first contact or a comment, and one contact
\* line out of WordLines
NextWords ==
  \/ cnt = 0 /\ \E l \in Headers : ReadLine(l)
  \/ cnt = 1 /\ \E l \in {full_qso, comment} : ReadLine(l)
  \/ cnt = 2 /\ \E l \in WordLines : ReadLine(l)
  \/ EndOfInput

SpecWords == Init /\ [][NextWords]_vars

\* input files of up to MaxHeaderLines lines out of HeaderLines
NextHeaders ==
  \/ cnt < MaxHeaderLines /\ \E l \in HeaderLines : ReadLine(l)
  \/ EndOfInput

SpecHeaders == Init /\ [][NextHeaders]_vars

\* input files of a header and up to MaxBlankLines - 1 lines out of
\* BlankLines after it
NextBlank ==
  \/ cnt = 0 /\ ReadLine(header)
  \/ cnt >= 1 /\ cnt < MaxBlankLines /\ \E l \in BlankLines : ReadLine(l)
  \/ EndOfInput

SpecBlank == Init /\ [][NextBlank]_vars

\* ------------------------------------------------------------------------
\* properties
\* ------------------------------------------------------------------------

\* the step reads a normal line; its content is Content
ReadsNormal == cnt' = cnt + 1 /\ partition(line')[1] # <<>>

Content == partition(line')[1]

\* the step reads a normal line while an activation is open and no blank
\* line is pending: a contact line
ReadsContact ==
  ReadsNormal /\ activation # None /\ ~blank_line /\ ~possible_blank_line

\* the step appends a record to the open activation
AppendsRecord ==
  /\ ReadsContact
  /\ activation' # None
  /\ Len(activation'.qsos) = Len(activation.qsos) + 1

\* the last record of the open activation before and after the step
LastRecord == activation.qsos[Len(activation.qsos)]

NewRecord == activation'.qsos[Len(activation'.qsos)]

\* the slots of the contact line the step reads
ContentSlots == slots(classify(Content, activation.contest)).wlist

\* the last entry of errors after the step
NewError == errors'[Len(errors')]

\* the step appends one entry to errors, for the line it reads
AppendsError ==
  /\ Len(errors') = Len(errors) + 1
  /\ SubSeq(errors', 1, Len(errors)) = errors
  /\ NewError[1] = cnt'
  /\ NewError[3] = Content

\* the activations of the chain that ends in act
RECURSIVE Chain(_)
Chain(act) == IF act = None THEN {} ELSE {act} \cup Chain(act.previous)

\* the length of a report in a mode
ReportLength(mode) ==
  IF mode \in {<<"C", "W">>, <<"D", "a", "t", "a">>} THEN 3 ELSE 2

\* C1: output is all-or-nothing: once an error is collected nothing is
\* printed by print_qsos, the activations are printed only by a normal end
\* with an empty error list, and with errors only the errors are reported
C1_AllOrNothing ==
  /\ errors # <<>> => stdout = <<>>
  /\ stdout # <<>> => pc = "done" /\ errors = <<>>
  /\ pc = "done" /\ errors # <<>> => stderr = errors

\* the input ended with a recorded contact and a collected error
C1_Witness ==
  /\ pc = "done"
  /\ errors # <<>>
  /\ activation # None
  /\ activation.qsos # <<>>
  /\ stdout = <<>>
  /\ stderr = errors

\* C2: no failure of a single line ends the scan: a normal line that yields
\* neither an activation nor a record is recorded as one error entry with
\* its line number and text, and the scan goes on
C2_ScanGoesOn ==
  [][ReadsNormal =>
       /\ pc' = "scan"
       /\ activation' = activation => AppendsError]_vars

\* the content is one or two words, all of them reports
OnlyReports(string) ==
  LET ws == finditer(string, 0)
  IN Len(ws) \in {1, 2} /\ \A k \in 1..Len(ws) : rst(ws[k].text)

\* C3: a contact line made of one or two reports only, after a valid record,
\* fails with "Invalid change from previous QSO" and appends no record
C3_ReportsOnlyInvalidChange ==
  [][(ReadsContact /\ activation.qsos # <<>> /\ OnlyReports(Content)) =>
       /\ activation' = activation
       /\ AppendsError
       /\ NewError[2][1] = "Invalid change from previous QSO"]_vars

ReportLengths ==
  \A act \in Chain(activation) :
     \A k \in 1..Len(act.qsos) :
        /\ Len(act.qsos[k].sent) = ReportLength(act.qsos[k].mode)
        /\ Len(act.qsos[k].rcvd) = ReportLength(act.qsos[k].mode)

\* C5: the reports of every record are 3 long for CW and Data and 2 long for
\* every other mode, and a line with a report word of the other length in a
\* report slot adds no record
C5_ReportLength ==
  /\ []ReportLengths
  /\ [][AppendsRecord =>
          \A e \in {5, 6} :
             ContentSlots[e] # None =>
               Len(ContentSlots[e].text) = ReportLength(NewRecord.mode)]_vars

\* a two-digit report was refused after a CW record
C5_Witness ==
  /\ activation # None
  /\ activation.qsos # <<>>
  /\ activation.qsos[Len(activation.qsos)].mode = <<"C", "W">>
  /\ errors # <<>>
  /\ errors[Len(errors)][2][1] = "Invalid RST for this mode"
  /\ Len(finditer(errors[Len(errors)][3], 0)[2].text) = 2

\* C6: with a previous record, a bare minute m keeps the previous hour when
\* m >= the previous minute and takes the next hour modulo 24 when m is
\* less; no time word reuses the previous time; hour and minute are taken
\* as written
C6_TimeResolution ==
  [][(AppendsRecord /\ activation.qsos # <<>>) =>
       LET given == time_reg(finditer(Content, 0)[1].text)
       IN IF given = None THEN NewRecord.time = LastRecord.time
          ELSE IF given[1] = NoHour
            THEN NewRecord.time =
                   <<(IF given[2] >= LastRecord.time[2] THEN LastRecord.time[1]
                      ELSE (LastRecord.time[1] + 1) % 24),
                     given[2]>>
          ELSE NewRecord.time = given]_vars

\* the line "02 W1XYZ" after a record at 14:58 gave a record at 15:02
C6_Witness ==
  /\ activation # None
  /\ Len(activation.qsos) = 2
  /\ activation.qsos[1].time = <<14, 58>>
  /\ partition(line)[1] = minute_qso
  /\ activation.qsos[2].time = <<15, 2>>

\* hour * 60 + minute of a record
TimeOfDay(q) == q.time[1] * 60 + q.time[2]

\* C7: the first record of an activation has day 0, and every later record
\* has the day of the record before it, plus one exactly when its time of
\* day is less than that record's
C7_DayCounter ==
  \A act \in Chain(activation) :
     \A k \in 1..Len(act.qsos) :
        act.qsos[k].day =
          IF k = 1 THEN 0
          ELSE IF TimeOfDay(act.qsos[k]) < TimeOfDay(act.qsos[k - 1])
            THEN act.qsos[k - 1].day + 1
          ELSE act.qsos[k - 1].day

\* C8: a contact line that fails leaves the activation and its records as
\* they were; a contact line that succeeds only appends one record, which is
\* the line resolved against the last record of the activation
C8_FailedLineLeavesRecords ==
  [][ReadsContact =>
       \/ /\ activation' = activation
          /\ AppendsError \/ pc' = "raised"
       \/ /\ activation' # None
          /\ activation'.qsos # <<>>
          /\ activation' = [activation EXCEPT !.qsos = Append(activation.qsos, NewRecord)]
          /\ errors' = errors
          /\ NewRecord =
               QSO(Content,
                   IF activation.qsos = <<>> THEN None ELSE LastRecord,
                   activation.contest).val]_vars

\* the third line failed as a contact line after a record, and the fourth
\* line gave the second record, with the frequency of the first
C8_Witness ==
  /\ cnt = 4
  /\ activation # None
  /\ Len(activation.qsos) = 2
  /\ Len(errors) = 1
  /\ errors[1][1] = 3
  /\ errors[1][2][1] = "Invalid change from previous QSO"
  /\ activation.qsos[2].callsign # activation.qsos[1].callsign
  /\ activation.qsos[2].freq = activation.qsos[1].freq

\* the messages of the Activation constructor
HeaderMessages ==
  { "Error in activation definition, missing callsign",
    "Error in activation definition, invalid date format",
    "Error in activation definition, missing date",
    "Error in activation definition, invalid SOTA reference detected" }

\* the step shows the effect of the Activation constructor on the line
TakenAsHeader ==
  \/ activation' # activation /\ activation'.previous = activation
  \/ errors' # errors /\ NewError[2][1] \in HeaderMessages
  \/ raised' = "ValueError"

\* the step shows the effect of add_qso on the line
TakenAsContact ==
  \/ /\ activation # None
     /\ activation' # activation
     /\ activation'.qsos # <<>>
     /\ activation' = [activation EXCEPT !.qsos = Append(activation.qsos, NewRecord)]
  \/ errors' # errors /\ NewError[2][1] \notin HeaderMessages
  \/ raised' \in {"IndexError", "NameError"}

\* C9: a normal line is handed to the Activation constructor exactly when
\* blank_line is set where the line is tested (a pending possible_blank_line
\* counts, being promoted first) or no activation is open, and is otherwise
\* a contact line of the open activation; a constructed Activation clears
\* blank_line and has the former open activation as its previous
C9_HeaderOrContact ==
  [][ReadsNormal =>
       /\ IF blank_line \/ possible_blank_line \/ activation = None
            THEN TakenAsHeader /\ ~TakenAsContact
            ELSE TakenAsContact /\ ~TakenAsHeader
       /\ (TakenAsHeader /\ activation' # activation) =>
            /\ blank_line' = FALSE
            /\ activation'.previous = activation
            /\ activation'.qsos = <<>>]_vars

\* a second activation was opened by the line after a blank line
C9_Witness ==
  /\ activation # None
  /\ activation.previous # None
  /\ activation.previous.qsos # <<>>
  /\ activation.qsos = <<>>
  /\ ~blank_line
  /\ errors = <<>>
  /\ partition(line)[1] = header

\* the message for the first required slot that the slots wl leave without a
\* value of their own, or ""
FirstMissing(wl) ==
  IF wl[1] = None \/ wl[1].t.time[1] = NoHour THEN "Missing time value"
  ELSE IF wl[2] = None THEN "Missing callsign"
  ELSE IF wl[3] = None THEN "Missing frequency"
  ELSE IF wl[4] = None THEN "Missing mode"
  ELSE ""

\* C10: the first contact line of an activation, also of one that follows
\* another activation, that passes the change gate without a full time, a
\* callsign, a frequency and a mode of its own fails with the message for
\* the first of them and adds no record
C10_FirstContactNeedsAll ==
  [][(ReadsContact /\ activation.qsos = <<>>) =>
       LET wl == ContentSlots
       IN ((wl[2] # None \/ wl[3] # None \/ wl[4] # None) /\ FirstMissing(wl) # "") =>
            /\ activation' = activation
            /\ AppendsError
            /\ NewError[2][1] = FirstMissing(wl)]_vars

\* the first contact line of a second activation failed for its missing time
C10_Witness ==
  /\ activation # None
  /\ activation.previous # None
  /\ activation.previous.qsos # <<>>
  /\ activation.qsos = <<>>
  /\ errors # <<>>
  /\ errors[Len(errors)][1] = cnt
  /\ errors[Len(errors)][2][1] = "Missing time value"
  /\ partition(line)[1] = call_only


\* the step reads a contact line as the first one of an activation that has
\* no contest
ReadsFirstContact ==
  ReadsContact /\ activation.qsos = <<>> /\ activation.contest = None

\* C11: the line "14:03 W1ABC 14.250 CW 599 588", first contact line of an
\* activation without a contest, gives a record with time (14, 3), callsign
\* W1ABC, the frequency of 14.250 MHz, mode CW, reports 599 and 588, and
\* empty notes
C11_ColonTimeResolves ==
  [][(ReadsFirstContact /\ Content = colon_qso) =>
       /\ AppendsRecord
       /\ NewRecord.time = <<14, 3>>
       /\ NewRecord.callsign = <<"W", "1", "A", "B", "C">>
       /\ NewRecord.freq = <<"1", "4", ".", "2", "5", "0", "M", "H", "z">>
       /\ NewRecord.mode = <<"C", "W">>
       /\ NewRecord.sent = <<"5", "9", "9">>
       /\ NewRecord.rcvd = <<"5", "8", "8">>
       /\ NewRecord.notes = <<>>]_vars

\* the step hands a normal line to the Activation constructor
ReadsHeader ==
  ReadsNormal /\ (blank_line \/ possible_blank_line \/ activation = None)

\* 1 when the first of the words ws of a header is a callsign, else 0
HeaderCall(ws) == IF ws # <<>> /\ call(ws[1].text) THEN 1 ELSE 0

\* 1 when the word after the first c words of a header is a date, else 0
HeaderDate(ws, c) ==
  IF Len(ws) > c /\ date_reg(ws[c + 1].text) # None THEN 1 ELSE 0

\* the word after the first k words of a header, or the empty word
HeaderWord(ws, k) == IF Len(ws) > k THEN ws[k + 1].text ELSE <<>>

\* the step appends an error with the message msg and opens no activation
FailsWith(msg) ==
  /\ activation' = activation
  /\ AppendsError
  /\ NewError[2][1] = msg

\* the date a date word stands for, or None
DateOf(w) ==
  LET m == date_reg(w)
  IN IF m = None THEN None ELSE <<int(m[1]), int(m[2]), int(m[3])>>

\* what C12 says of the step that reads a header whose callsign is call_word
\* (or None), whose date is date_word (or None) and whose word after them
\* is ref_word
HeaderOutcome(call_word, date_word, ref_word) ==
  IF call_word = None /\ activation = None
    THEN FailsWith("Error in activation definition, missing callsign")
  ELSE IF date_word # None /\ ~date_ok(date_word[1], date_word[2], date_word[3])
    THEN activation' = activation
  ELSE IF date_word = None /\ activation = None
    THEN FailsWith("Error in activation definition, missing date")
  ELSE IF ~sota_ref(ref_word) /\ ref_word # <<"*">>
    THEN FailsWith("Error in activation definition, invalid SOTA reference detected")
  ELSE /\ activation' # activation
       /\ activation'.previous = activation
       /\ activation'.callsign =
            (IF call_word # None THEN upper(call_word) ELSE activation.callsign)
       /\ activation'.date =
            (IF date_word # None THEN date_word ELSE activation.date)
       /\ activation'.ref =
            (IF ref_word = <<"*">> THEN <<>> ELSE upper(ref_word))

\* C12: a header takes callsign and date from the line when present and
\* otherwise from the previous activation; without a previous activation a
\* header without callsign fails naming the callsign, one without date fails
\* naming the date; the SOTA reference is never inherited: a word that is
\* neither a reference nor "*" fails, and "*" gives the empty reference
C12_HeaderResolution ==
  [][ReadsHeader =>
       \A ws \in {finditer(Content, 0)} :
          \A c \in {HeaderCall(ws)} :
             \A d \in {HeaderDate(ws, c)} :
                \A date_word \in {IF d = 1 THEN DateOf(ws[c + 1].text) ELSE None} :
                   \A ref_word \in {HeaderWord(ws, c + d)} :
                      HeaderOutcome(IF c = 1 THEN ws[1].text ELSE None,
                                    date_word, ref_word)]_vars

\* a second activation took callsign and date from the first one and a
\* reference of its own from its header
C12_Witness ==
  /\ activation # None
  /\ activation.previous # None
  /\ partition(line)[1] = bare_ref
  /\ activation.callsign = activation.previous.callsign
  /\ activation.date = activation.previous.date
  /\ activation.ref = bare_ref
  /\ activation.previous.ref # activation.ref

\* the number of the words ws that the slots wl hold
HeldWords(ws, wl) ==
  Cardinality({k \in 1..Len(ws) :
                 \E e \in 1..Len(wl) : wl[e] # None /\ wl[e].start = ws[k].start})

\* C13: the notes of a record are the words from the notes boundary to the
\* end of the line, joined by single spaces: the words after those that the
\* slots hold, and the empty string when the slots hold every word
C13_NotesFromBoundary ==
  [][AppendsRecord =>
       \A ws \in {finditer(Content, 0)} :
          \A wl \in {ContentSlots} :
             NewRecord.notes =
               join(SubSeq(ws, HeldWords(ws, wl) + 1, Len(ws)))]_vars

\* C14: a first contact line without a report word gives a record whose
\* reports are both 599 when its mode is CW or Data and both 59 for every
\* other mode
C14_DefaultReports ==
  [][(AppendsRecord /\ activation.qsos = <<>>) =>
       \A wl \in {ContentSlots} :
          (wl[5] = None /\ wl[6] = None) =>
            \A report \in {IF NewRecord.mode \in {<<"C", "W">>, <<"D", "a", "t", "a">>}
                             THEN <<"5", "9", "9">> ELSE <<"5", "9">>} :
               NewRecord.sent = report /\ NewRecord.rcvd = report]_vars

\* the first contact line "1458 W1ABC 14 SSB" gave a record with the reports
\* 59 and 59
C14_Witness ==
  /\ activation # None
  /\ Len(activation.qsos) = 1
  /\ partition(line)[1] = ssb_qso
  /\ activation.qsos[1].mode = <<"S", "S", "B">>
  /\ activation.qsos[1].sent = <<"5", "9">>
  /\ activation.qsos[1].rcvd = <<"5", "9">>

\* C15: a contact line whose third word is a number with the unit kHz, MHz
\* or GHz does not fail on that word: inside a band the word is the
\* frequency of the record, in MHz ("14MHz", "14250kHz" as "14.250MHz");
\* outside every band ("2GHz") the word is no frequency, so that the line
\* has no frequency of its own
C15_FreqWithUnit ==
  [][(ReadsContact /\ Content \in {unit_qso, khz_qso, ghz_qso}) =>
       /\ pc' = "scan"
       /\ raised' = ""
       /\ Content = unit_qso =>
            AppendsRecord /\ NewRecord.freq = <<"1", "4", "M", "H", "z">>
       /\ Content = khz_qso =>
            /\ AppendsRecord
            /\ NewRecord.freq = <<"1", "4", ".", "2", "5", "0", "M", "H", "z">>
       /\ (Content = ghz_qso /\ activation.qsos = <<>>) =>
            FailsWith("Missing frequency")
       /\ (Content = ghz_qso /\ activation.qsos # <<>>) =>
            AppendsRecord /\ NewRecord.freq = LastRecord.freq]_vars

\* the slots of a contact line after the forward scan alone
ForwardSlots(string, exchange) ==
  scan(classify(string, exchange), 0, -1, [e \in 1..8 |-> None]).wlist

\* the step rejects the line at the minimum change check
RejectedAtGate ==
  \/ raised' = "IndexError"
  \/ errors' # errors /\ NewError[2][1] = "Invalid change from previous QSO"

\* C16: a contact line after a record in which the forward scan gave a word
\* to the Call, Freq or Mode slot is not rejected at the minimum change
\* check, and the record of the line has the value of that word
C16_RestatedPassesGate ==
  [][(ReadsContact /\ activation.qsos # <<>>) =>
       \A fw \in {ForwardSlots(Content, activation.contest)} :
          (fw[2] # None \/ fw[3] # None \/ fw[4] # None) =>
            /\ ~RejectedAtGate
            /\ AppendsRecord =>
                 /\ fw[2] # None => NewRecord.callsign = fw[2].t.call
                 /\ fw[3] # None => NewRecord.freq = fw[3].t.freq
                 /\ fw[4] # None => NewRecord.mode = fw[4].t.mode]_vars

\* the slots wl keep the order of the words, and every slot holds a word
\* that has the category of the slot
SlotsInOrder(wl) ==
  /\ \A i \in 1..Len(wl) : \A j \in 1..Len(wl) :
        (i < j /\ wl[i] # None /\ wl[j] # None) => wl[i].start < wl[j].start
  /\ \A e \in 1..Len(wl) : wl[e] # None => wl[e].t[typeorder[e]] # None

\* C17: after the forward scan and the moving back, the slots of every
\* contact line keep the order of its words, and every slot holds a word
\* that has the category of the slot
C17_SlotOrder ==
  [][ReadsContact => \A wl \in {ContentSlots} : SlotsInOrder(wl)]_vars

\* the third line was a contact line of which the moving back changed the
\* slots, and it gave the second record
C17_Witness ==
  /\ cnt = 3
  /\ handle[2] = full_qso
  /\ activation # None
  /\ Len(activation.qsos) = 2
  /\ slots(classify(partition(line)[1], activation.contest)).wlist
       # ForwardSlots(partition(line)[1], activation.contest)

\* the kinds of lines: without content and without comment, without content
\* and with a comment, with content
IsBlank(l) == partition(l)[1] = <<>> /\ partition(l)[2] = <<>>

IsComment(l) == partition(l)[1] = <<>> /\ partition(l)[2] # <<>>

IsNormal(l) == partition(l)[1] # <<>>

\* the step reads a blank line
ReadsBlank == cnt' = cnt + 1 /\ IsBlank(line')

\* an activation is open and has no record yet
NoContactYet == activation # None /\ activation.qsos = <<>>

\* C18: while the open activation has no record, no blank line flag is set,
\* a blank line leaves blank_line and possible_blank_line clear, and the
\* normal line after a blank line is a contact line of the same activation
C18_BlankBeforeFirstContact ==
  /\ [](NoContactYet => ~blank_line /\ ~possible_blank_line)
  /\ [][(ReadsBlank /\ NoContactYet) =>
          /\ ~blank_line'
          /\ ~possible_blank_line'
          /\ activation' = activation]_vars
  /\ [][(ReadsNormal /\ NoContactYet /\ handle # <<>> /\ IsBlank(handle[Len(handle)])) =>
          /\ TakenAsContact
          /\ ~TakenAsHeader
          /\ activation'.previous = activation.previous]_vars

\* a header, a contact line that failed, a blank line, and a contact line
\* that gave the first record of the activation
C18_Witness ==
  /\ handle = <<header, call_only, blank, full_qso>>
  /\ activation # None
  /\ activation.previous = None
  /\ Len(activation.qsos) = 1
  /\ Len(errors) = 1
  /\ errors[1][1] = 2

\* an activation is open and has a record
HasContact == activation # None /\ activation.qsos # <<>>

\* the last two lines read were a comment-only line and a blank line
AfterCommentBlank ==
  /\ Len(handle) >= 2
  /\ IsComment(handle[Len(handle) - 1])
  /\ IsBlank(handle[Len(handle)])

\* C19: when the open activation has a record, a blank line right after a
\* comment-only line leaves possible_blank_line pending, and the normal line
\* after the two is handed to the Activation constructor: the pending flag
\* is promoted to blank_line before the line is tested, so that blank_line
\* stays set unless the constructor gives the new activation
C19_CommentBlankSeparates ==
  /\ [][(ReadsBlank /\ HasContact /\ handle # <<>> /\ IsComment(handle[Len(handle)])) =>
          possible_blank_line']_vars
  /\ [](HasContact /\ AfterCommentBlank /\ pc = "scan" => possible_blank_line)
  /\ [][(ReadsNormal /\ HasContact /\ AfterCommentBlank) =>
          /\ TakenAsHeader
          /\ ~TakenAsContact
          /\ ~possible_blank_line'
          /\ blank_line' = (activation' = activation)]_vars

\* a header, a contact, a comment-only line, a blank line, and a header that
\* opened the second activation
C19_Witness ==
  /\ handle = <<header, full_qso, comment, blank, header>>
  /\ activation # None
  /\ activation.previous # None
  /\ Len(activation.previous.qsos) = 1
  /\ activation.qsos = <<>>
  /\ ~blank_line
  /\ errors = <<>>

\* the line read n lines ago gave a record: it is a normal line, no error
\* entry has its number, and the open activation has a record
RecordedContact(n) ==
  /\ Len(handle) > n
  /\ IsNormal(handle[Len(handle) - n])
  /\ \A k \in 1..Len(errors) : errors[k][1] # Len(handle) - n
  /\ HasContact

\* the last three lines read were a comment-only line, a blank line and a
\* comment-only line
AfterCommentBlankComment ==
  /\ Len(handle) >= 3
  /\ IsComment(handle[Len(handle) - 2])
  /\ IsBlank(handle[Len(handle) - 1])
  /\ IsComment(handle[Len(handle)])

\* C20: after a line that gave a record, a comment-only line, a blank line
\* and a comment-only line, the next normal line is a contact line of the
\* same activation
C20_BlankBetweenComments ==
  [][(ReadsNormal /\ AfterCommentBlankComment /\ RecordedContact(3)) =>
       /\ TakenAsContact
       /\ ~TakenAsHeader
       /\ activation'.previous = activation.previous]_vars

\* a header, a contact, a comment-only line, a blank line, a comment-only
\* line, and a contact line that gave the second record of the activation
C20_Witness ==
  /\ handle = <<header, full_qso, comment, blank, comment, call_only>>
  /\ activation # None
  /\ activation.previous = None
  /\ Len(activation.qsos) = 2
  /\ errors = <<>>

\* the step reads a comment-only line
ReadsComment == cnt' = cnt + 1 /\ IsComment(line')

\* C21: a comment-only line read while blank_line is clear sets
\* possible_blank_line
C21_CommentSetsPending ==
  [][(ReadsComment /\ ~blank_line) => possible_blank_line']_vars

\* C21 as amended: a comment-only line sets comment_line and clears
\* possible_blank_line, whatever blank_line is, and leaves blank_line and the
\* open activation as they are; possible_blank_line is set only by a blank
\* line read while comment_line is set and the open activation has a record
C21_CommentClearsPending ==
  /\ [][ReadsComment =>
          /\ comment_line'
          /\ ~possible_blank_line'
          /\ blank_line' = blank_line
          /\ activation' = activation
          /\ errors' = errors]_vars
  /\ [][(~possible_blank_line /\ possible_blank_line') =>
          ReadsBlank /\ comment_line /\ HasContact /\ ~comment_line']_vars

\* a comment-only line was read while possible_blank_line was pending and
\* cleared it
C21_Witness ==
  /\ handle = <<header, full_qso, comment, blank, comment>>
  /\ comment_line
  /\ ~possible_blank_line
  /\ ~blank_line

\* the line read last was handed to the Activation constructor and failed
\* there, while an activation is open
AfterFailedHeader ==
  /\ activation # None
  /\ errors # <<>>
  /\ errors[Len(errors)][1] = cnt
  /\ errors[Len(errors)][2][1] \in HeaderMessages

\* C22: a normal line that fails in the Activation constructor leaves the
\* open activation and its chain as they were, and the normal line right
\* after it is a contact line of the open activation, not another header
C22_FailedHeaderOnlyItself ==
  /\ [][(ReadsHeader /\ errors' # errors) => activation' = activation]_vars
  /\ [][(ReadsNormal /\ AfterFailedHeader) =>
          TakenAsContact /\ ~TakenAsHeader]_vars

\* C23: in the slots of every contact line, with or without a contest, the
\* RstSent slot holds a word only if the RstRcvd slot holds one, and the
\* record of a line with an empty RstSent slot has the default report of its
\* mode as the sent report
C23_SingleReportIsReceived ==
  /\ [][ReadsContact =>
          \A wl \in {ContentSlots} : wl[5] # None => wl[6] # None]_vars
  /\ [][AppendsRecord =>
          \A wl \in {ContentSlots} :
             wl[5] = None =>
               NewRecord.sent =
                 (IF NewRecord.mode \in {<<"C", "W">>, <<"D", "a", "t", "a">>}
                    THEN <<"5", "9", "9">> ELSE <<"5", "9">>)]_vars

\* the line "W2AA 21 CW 145" after a record gave a record with the received
\* report 145 and the sent report 599
C23_Witness ==
  /\ handle = <<header, full_qso, single_report>>
  /\ activation # None
  /\ Len(activation.qsos) = 2
  /\ activation.qsos[2].rcvd = <<"1", "4", "5">>
  /\ activation.qsos[2].sent = <<"5", "9", "9">>

\* the slots among 1..8 that hold the word w in the slots wl
SlotsOf(wl, w) == {e \in 1..Len(wl) : wl[e] = w}

\* C24: the moving back conserves the words: every word that a slot holds
\* after the forward scan is held by exactly one slot afterwards, which is
\* its old slot or, for a word of the Freq, Mode, RstSent or RstRcvd slot, a
\* later one; no other word enters a slot; the Time, Call and SotaRef slots
\* are left as they were
C24_MovingBackConserves ==
  [][ReadsContact =>
       \A fw \in {ForwardSlots(Content, activation.contest)} :
          \A wl \in {ContentSlots} :
             /\ \A e \in 1..Len(fw) :
                   fw[e] # None =>
                     /\ Cardinality(SlotsOf(wl, fw[e])) = 1
                     /\ \A e2 \in SlotsOf(wl, fw[e]) :
                           e2 >= e /\ (e2 > e => e \in 3..6 /\ e2 \in 5..7)
             /\ \A e \in 1..Len(wl) :
                   wl[e] # None => SlotsOf(fw, wl[e]) # {}
             /\ wl[1] = fw[1]
             /\ wl[2] = fw[2]
             /\ wl[8] = fw[8]]_vars

\* the third line was a contact line of an activation with a contest, and
\* the moving back gave one of its words to the Exchange slot
C24_Witness ==
  /\ cnt = 3
  /\ activation # None
  /\ activation.contest # None
  /\ ForwardSlots(partition(line)[1], activation.contest)[7] = None
  /\ slots(classify(partition(line)[1], activation.contest)).wlist[7] # None

\* C25: in every state each activation of the chain before the open one has
\* at least one record, and blank_line or possible_blank_line is set only
\* while the open activation has at least one record
C25_NoActivationOnEmptyOne ==
  /\ activation # None =>
       \A act \in Chain(activation.previous) : act.qsos # <<>>
  /\ (blank_line \/ possible_blank_line) => HasContact

\* a second activation was opened after a blank line, has a record itself,
\* and a blank line after that record set blank_line again
C25_Witness ==
  /\ handle = <<header, full_qso, blank, header, full_qso, blank>>
  /\ activation # None
  /\ activation.previous # None
  /\ Len(activation.previous.qsos) = 1
  /\ Len(activation.qsos) = 1
  /\ blank_line

\* no line read so far is a normal line
NoNormalLine == \A k \in 1..Len(handle) : ~IsNormal(handle[k])

\* C26: when the input ends and no line read was a normal line (nothing was
\* read, or only comment-only and blank lines), parse_input finishes
\* normally: nothing is raised, the error list is empty and nothing is
\* written
C26_NoNormalLineFinishes ==
  [][(pc = "scan" /\ pc' # "scan" /\ NoNormalLine) =>
       /\ pc' = "done"
       /\ raised' = ""
       /\ errors' = <<>>
       /\ stdout' = <<>>
       /\ stderr' = <<>>]_vars

====
